---- MODULE Spec2Model ----
(***************************************************************************)
(* The live shader preview of ShaderConverter: App's source / mesh state,  *)
(* ShaderPreview's lighting mode, the ErrorBoundary around PreviewMesh,    *)
(* the Suspense/useLoader model cache and the per-frame uTime uniform.     *)
(* Spec is the preview as App mounts it; SpecProps drives the preview      *)
(* through every prop it declares; SpecHost adds the converter engine and  *)
(* the Convert button; SpecShare follows a text through UrlService.        *)
(*                                                                         *)
(* Strings the code inspects (meshType, resetKey) are sequences of tokens, *)
(* so startsWith / replace / template concatenation are computed.          *)
(* Decimal geometry arguments are written in tenths (1.5 -> 15).           *)
(***************************************************************************)
EXTENDS Integers, Sequences, FiniteSets, TLC

VARIABLES
    glsl,          \* App: useState glsl, passed as fragmentShader
    meshType,      \* App: useState meshType
    lightingMode,  \* ShaderPreview: useState lightingMode
    hasError,      \* ErrorBoundary: this.state.hasError
    prevResetKey,  \* ErrorBoundary: props.resetKey of the last commit
    cache,         \* useLoader's URL-keyed cache (one for both custom components)
    fetches,       \* per URL: underlying fetches issued so far
    inflight,      \* per URL: underlying fetches not yet settled
    shown,         \* what the committed tree under the boundary draws
    clock,         \* state.clock.getElapsedTime() of the Canvas
    uTime,         \* uniforms.uTime.value of the mounted shader component
    drawnTime,     \* uTime of the shader material at the last gl.render
    lastEvent,     \* the last event, and whether the boundary was Faulted at it
    pc,            \* position of React's commit: idle / render / didUpdate
    vertexShader,  \* ShaderPreview: props.vertexShader (App passes none)
    wasm,          \* useWasm: the engine module is loading / ready / error
    output,        \* App: useState output, the converter's text
    hash,          \* window.location.hash without its '#'
    sharedCode,    \* the source text handleShare was last called on
    hdriRotation   \* ShaderPreview: useState hdriRotation, in tenths of a radian

\* State of the page around the preview
host == << wasm, output, hash, sharedCode, hdriRotation >>

vars == << glsl, meshType, lightingMode, hasError, prevResetKey, cache, fetches,
           inflight, shown, clock, uTime, drawnTime, lastEvent, pc, vertexShader,
           host >>

-----------------------------------------------------------------------------
(* Bounds of the model *)

MaxClock == 2
MaxFetch == 2

-----------------------------------------------------------------------------
(* Inputs *)

\* Source texts the editor can hold: empty, two programs the GLSL backend
\* accepts, one it rejects.
Sources == {"", "ok", "ok2", "bad"}

\* Vertex texts a host can pass as the vertexShader prop
VertexTexts == {"v0", "v1"}

LibraryFirst == "ok"

PickerKinds ==
    {"plane", "box", "sphere", "torus", "knot", "cylinder", "cone", "icosahedron",
     "octahedron", "dodecahedron", "tetrahedron", "ring"}

UrlSet == {<<"blob1">>, <<"blob2">>}

CustomMesh(url) == <<"custom:">> \o url

MeshTypes == {<<k>> : k \in PickerKinds} \cup {CustomMesh(u) : u \in UrlSet}

LightingModes == {"shader", "lit"}

-----------------------------------------------------------------------------
(* Material Binder *)

FlatColorFallback == "flat"

\* The GLSL3 backend's verdict on a fragment text, given when the renderer
\* first draws with it. The empty text has no main() and is rejected.
Compiles(frag) == frag \in {"ok", "ok2", FlatColorFallback}

\* Mutant: no substitution, the text is bound as it is.
safeFragmentShaderVerbatim(fragmentShader) == fragmentShader

\* Mutant: a pre-flight check, so that a rejected text is substituted too.
safeFragmentShaderPreflight(fragmentShader) ==
    IF fragmentShader = "" \/ ~Compiles(fragmentShader)
    THEN FlatColorFallback ELSE fragmentShader

\* fragmentShader || `... fragColor = vec4(1.0, 0.0, 1.0, 1.0) ...`
safeFragmentShader(fragmentShader) ==
    IF fragmentShader = "" THEN FlatColorFallback ELSE fragmentShader

\* vertexShader = GLSL3_VERTEX, the default of PreviewMesh's parameter
GLSL3_VERTEX == "v0"

\* Mutant: the uniform block holds only what the program text declares; the
\* substitute for the empty text declares nothing.
ShaderMaterialOfDeclared(vertex, frag) ==
    [type |-> "shader", vertex |-> vertex, frag |-> frag,
     built |-> <<vertex, frag>>,
     uniforms |-> IF frag = FlatColorFallback THEN {} ELSE {"uTime", "uResolution"}]

\* THREE.ShaderMaterial built from the two texts: construction stores the
\* texts and raises nothing; a rejected program is reported by the renderer
\* and draws nothing. built records the texts the object was constructed
\* from, which tells a newly built object from one whose texts were written
\* into later. uniforms are the keys of the uniform block.
ShaderMaterialOf(vertex, frag) ==
    [type |-> "shader", vertex |-> vertex, frag |-> frag,
     built |-> <<vertex, frag>>, uniforms |-> {"uTime", "uResolution"}]

\* The material of a preview that is given no vertexShader prop
ShaderMaterial(frag) == ShaderMaterialOf(GLSL3_VERTEX, frag)

StandardMaterial == [type |-> "standard", color |-> "0xcccccc"]

-----------------------------------------------------------------------------
(* Mesh Selector *)

\* meshType.startsWith('custom:')
isCustom(m) == Len(m) >= 1 /\ m[1] = "custom:"

\* meshType.replace('custom:', ''): the first occurrence is removed
RemoveFirst(m, tok) ==
    IF \E i \in 1..Len(m) : m[i] = tok
    THEN LET i == CHOOSE j \in 1..Len(m) :
                      m[j] = tok /\ \A k \in 1..(j-1) : m[k] # tok
         IN  SubSeq(m, 1, i-1) \o SubSeq(m, i+1, Len(m))
    ELSE m

UrlOf(m) == IF isCustom(m) THEN RemoveFirst(m, "custom:") ELSE << >>

\* switch (meshType) of PrimitiveMeshShader (args in tenths where decimal)
PrimitiveGeometry(m) ==
    CASE m = <<"box">>    -> [shape |-> "box", args |-> <<15, 15, 15>>]
      [] m = <<"sphere">> -> [shape |-> "sphere", args |-> <<10, 64, 64>>]
      [] m = <<"torus">>  -> [shape |-> "torus", args |-> <<8, 4, 64, 64>>]
      [] m = <<"knot">>   -> [shape |-> "knot", args |-> <<6, 2, 128, 32>>]
      [] OTHER            -> [shape |-> "plane", args |-> <<20, 20>>]

\* Mutant: the lit sphere is built with half the segments.
PrimitiveGeometryLitCoarse(m) ==
    CASE m = <<"box">>    -> [shape |-> "box", args |-> <<15, 15, 15>>]
      [] m = <<"sphere">> -> [shape |-> "sphere", args |-> <<10, 32, 32>>]
      [] m = <<"torus">>  -> [shape |-> "torus", args |-> <<8, 4, 64, 64>>]
      [] m = <<"knot">>   -> [shape |-> "knot", args |-> <<6, 2, 128, 32>>]
      [] OTHER            -> [shape |-> "plane", args |-> <<20, 20>>]

\* switch (meshType) of PrimitiveMeshLit
PrimitiveGeometryLit(m) ==
    CASE m = <<"box">>    -> [shape |-> "box", args |-> <<15, 15, 15>>]
      [] m = <<"sphere">> -> [shape |-> "sphere", args |-> <<10, 64, 64>>]
      [] m = <<"torus">>  -> [shape |-> "torus", args |-> <<8, 4, 64, 64>>]
      [] m = <<"knot">>   -> [shape |-> "knot", args |-> <<6, 2, 128, 32>>]
      [] OTHER            -> [shape |-> "plane", args |-> <<20, 20>>]

-----------------------------------------------------------------------------
(* Resource Loader: GLTFLoader through useLoader *)

\* A material that comes with the file
FileMaterial == [type |-> "gltf"]

\* A scene as the loader delivers it: the bounding box of its geometry, lo
\* and hi per axis (two axes here), the identity transform of the Group that
\* GLTFLoader makes for a scene, and the file's own material on each of its
\* mesh leaves.
LoadedScene(url, lo, hi, materials) ==
    [url |-> url, lo |-> lo, hi |-> hi, scale |-> <<1, 1>>,
     position |-> [a \in 1..Len(lo) |-> <<0, 1>>], materials |-> materials]

\* gltf.scene of the two files: blob1 holds two meshes, 4 wide and 2 high;
\* blob2 is a valid file that holds no mesh at all (nodes only), which
\* GLTFLoader parses without complaint.
GltfScene(url) ==
    IF url = <<"blob1">>
    THEN LoadedScene(url, <<1, 0>>, <<5, 2>>, <<FileMaterial, FileMaterial>>)
    ELSE LoadedScene(url, <<0, 0>>, <<0, 0>>, << >>)

Absent == [st |-> "absent"]
Pending == [st |-> "pending"]
Failed == [st |-> "error"]
Loaded(url) == [st |-> "loaded", scene |-> GltfScene(url)]

\* Mutant: an entry whose load is still pending is not found, so a second
\* request starts a second fetch.
CacheHitSettledOnly(entry) == entry.st \in {"loaded", "error"}

\* The cache lookup of useLoader: any entry for the key, pending, loaded or
\* failed, is found.
CacheHit(entry) == entry.st # "absent"

\* Mutant: a load that is still pending is thrown as an error, not as the
\* promise Suspense waits on.
useLoaderPendingThrows(c, url) ==
    IF ~CacheHit(c[url]) THEN "fetch"
    ELSE CASE c[url].st = "loaded" -> "ok"
           [] OTHER                -> "throw"

\* useLoader(GLTFLoader, url): a failed entry rethrows its error, a loaded one
\* returns its result, a pending one suspends on the shared promise, and a
\* missing one starts the fetch and suspends.
useLoader(c, url) ==
    IF ~CacheHit(c[url]) THEN "fetch"
    ELSE CASE c[url].st = "error"  -> "throw"
           [] c[url].st = "loaded" -> "ok"
           [] OTHER                -> "suspend"

\* Numbers of the scene transform are rationals << numerator, denominator >>
\* in lowest terms with a positive denominator.
RECURSIVE Gcd(_, _)
Gcd(a, b) == IF b = 0 THEN a ELSE Gcd(b, a % b)

Abs(n) == IF n < 0 THEN 0 - n ELSE n

Rat(n, d) ==
    LET g == Gcd(Abs(n), Abs(d))
        sgn == IF d < 0 THEN 0 - 1 ELSE 1
    IN  IF n = 0 THEN <<0, 1>> ELSE <<sgn * (n \div g), sgn * (d \div g)>>

RAdd(x, y) == Rat(x[1] * y[2] + y[1] * x[2], x[2] * y[2])
RSub(x, y) == Rat(x[1] * y[2] - y[1] * x[2], x[2] * y[2])
RMul(x, y) == Rat(x[1] * y[1], x[2] * y[2])
RDiv(x, y) == Rat(x[1] * y[2], x[2] * y[1])

\* new THREE.Box3().setFromObject(s): the box of s under its own transform.
\* With no geometry the box stays empty, and getSize / getCenter of an empty
\* box give zero.
WorldBox(s) ==
    IF s.materials = << >>
    THEN [lo |-> [a \in 1..Len(s.lo) |-> <<0, 1>>],
          hi |-> [a \in 1..Len(s.lo) |-> <<0, 1>>]]
    ELSE [lo |-> [a \in 1..Len(s.lo) |->
                     RAdd(RMul(<<s.lo[a], 1>>, s.scale), s.position[a])],
          hi |-> [a \in 1..Len(s.lo) |->
                     RAdd(RMul(<<s.hi[a], 1>>, s.scale), s.position[a])]]

RLeq(x, y) == x[1] * y[2] <= y[1] * x[2]

\* box.getSize(size): the extent per axis
Size(box) == [a \in 1..Len(box.lo) |-> RSub(box.hi[a], box.lo[a])]

\* Mutant: the width alone is taken for the longest dimension.
MaxDimWidth(size) == size[1]

\* Math.max(size.x, size.y, size.z)
MaxDim(size) ==
    LET a == CHOOSE i \in 1..Len(size) : \A j \in 1..Len(size) : RLeq(size[j], size[i])
    IN  size[a]

\* box.getCenter(center)
Center(box) ==
    [a \in 1..Len(box.lo) |-> RDiv(RAdd(box.lo[a], box.hi[a]), <<2, 1>>)]

\* Scale and recentre: scale = 2.0 / (maxDim || 1); s.scale.setScalar(scale);
\* then the box is taken again and its centre subtracted from s.position.
Normalize(s) ==
    LET maxDim == MaxDim(Size(WorldBox(s)))
        scale == RDiv(<<2, 1>>, IF maxDim = <<0, 1>> THEN <<1, 1>> ELSE maxDim)
        scaled == [s EXCEPT !.scale = scale]
        center == Center(WorldBox(scaled))
    IN  [scaled EXCEPT !.position =
            [a \in 1..Len(s.lo) |-> RSub(s.position[a], center[a])]]

\* Mutant: only the first mesh leaf is given the material.
AssignMaterialFirstLeaf(s, material) ==
    [s EXCEPT !.materials =
        [i \in 1..Len(s.materials) |-> IF i = 1 THEN material ELSE s.materials[i]]]

\* s.traverse(child => { if (child.isMesh) child.material = material })
AssignMaterial(s, material) ==
    [s EXCEPT !.materials = [i \in 1..Len(s.materials) |-> material]]

\* Mutant: the scene is normalised in place, without clone().
SceneInPlace(original, worked) == worked

\* const s = gltf.scene.clone(): the cached scene stays as loaded, whatever is
\* done to the copy.
SceneAfterClone(original, worked) == original

-----------------------------------------------------------------------------
(* Components under the boundary *)

ShaderComps == {"PrimitiveMeshShader", "CustomModelShader"}

CustomModelShader(url, frag, vertex, c) ==
    LET r == useLoader(c, url) IN
    IF r = "ok"
    THEN [result |-> "ok", comp |-> "CustomModelShader",
          geom |-> [shape |-> "custom",
                    scene |-> AssignMaterial(Normalize(c[url].scene),
                                             ShaderMaterialOf(vertex, frag))],
          mat |-> ShaderMaterialOf(vertex, frag)]
    ELSE [result |-> r, comp |-> "CustomModelShader"]

CustomModelLit(url, c) ==
    LET r == useLoader(c, url) IN
    IF r = "ok"
    THEN [result |-> "ok", comp |-> "CustomModelLit",
          geom |-> [shape |-> "custom",
                    scene |-> AssignMaterial(Normalize(c[url].scene), StandardMaterial)],
          mat |-> StandardMaterial]
    ELSE [result |-> r, comp |-> "CustomModelLit"]

PrimitiveMeshShader(frag, vertex, m) ==
    [result |-> "ok", comp |-> "PrimitiveMeshShader",
     geom |-> PrimitiveGeometry(m), mat |-> ShaderMaterialOf(vertex, frag)]

PrimitiveMeshLit(m) ==
    [result |-> "ok", comp |-> "PrimitiveMeshLit",
     geom |-> PrimitiveGeometryLit(m), mat |-> StandardMaterial]

\* Mutant: the custom path is given the text as typed, without the
\* substitution for the empty text.
PreviewMeshRawOnCustom(fragmentShader, vertex, m, mode, c) ==
    IF mode = "lit"
    THEN IF isCustom(m) THEN CustomModelLit(UrlOf(m), c) ELSE PrimitiveMeshLit(m)
    ELSE IF isCustom(m)
         THEN CustomModelShader(UrlOf(m), fragmentShader, vertex, c)
         ELSE PrimitiveMeshShader(safeFragmentShader(fragmentShader), vertex, m)

\* Mutant: a primitive is drawn with the author's shader in lit mode too.
PreviewMeshLitCustomOnly(fragmentShader, vertex, m, mode, c) ==
    IF isCustom(m)
    THEN IF mode = "lit" THEN CustomModelLit(UrlOf(m), c)
         ELSE CustomModelShader(UrlOf(m), safeFragmentShader(fragmentShader), vertex, c)
    ELSE PrimitiveMeshShader(safeFragmentShader(fragmentShader), vertex, m)

PreviewMesh(fragmentShader, vertex, m, mode, c) ==
    IF mode = "lit"
    THEN IF isCustom(m) THEN CustomModelLit(UrlOf(m), c) ELSE PrimitiveMeshLit(m)
    ELSE IF isCustom(m)
         THEN CustomModelShader(UrlOf(m), safeFragmentShader(fragmentShader), vertex, c)
         ELSE PrimitiveMeshShader(safeFragmentShader(fragmentShader), vertex, m)

\* <mesh><boxGeometry /><meshBasicMaterial color="red" /></mesh>
DefaultFallback ==
    [comp |-> "ErrorFallback", geom |-> [shape |-> "box", args |-> <<10, 10, 10>>],
     mat |-> [type |-> "basic", color |-> "red"]]

\* fallback={<mesh><boxGeometry /><meshBasicMaterial color="magenta" /></mesh>}
FallbackProp ==
    [comp |-> "ErrorFallback", geom |-> [shape |-> "box", args |-> <<10, 10, 10>>],
     mat |-> [type |-> "basic", color |-> "magenta"]]

NoFallback == [comp |-> "none"]

\* this.props.fallback || <default>
BoundaryFallback(fallback) == IF fallback # NoFallback THEN fallback ELSE DefaultFallback

LoadingFallback ==
    [comp |-> "LoadingFallback", geom |-> [shape |-> "box", args |-> <<5, 5, 5>>],
     mat |-> [type |-> "basic", color |-> "yellow", wireframe |-> TRUE]]

\* Mutant: the key leaves the mesh out.
ResetKeyModeOnly(m, mode) == <<"-", mode>>

\* resetKey={`${props.meshType}-${lightingMode}`}
ResetKey(m, mode) == m \o <<"-", mode>>

Output(r) == [comp |-> r.comp, geom |-> r.geom, mat |-> r.mat]

\* Mutant: the element is keyed on both texts, so either change remounts it.
KeyedOnBothTexts(prev, next) == next

\* <shaderMaterial key={fragmentShader} ... {...materialConfig} /> inside the
\* keyed primitive (<Box key="box"> ...): while PrimitiveMeshShader stays
\* mounted with the same primitive and the same fragment text, the material
\* object is kept and the changed props are written into it; otherwise the
\* element is mounted anew with a newly constructed material.
KeyedShaderMaterial(prev, next) ==
    IF /\ next.comp = "PrimitiveMeshShader"
       /\ prev.comp = "PrimitiveMeshShader"
       /\ prev.geom.shape = next.geom.shape
       /\ prev.mat.frag = next.mat.frag
    THEN [next EXCEPT !.mat = [prev.mat EXCEPT !.vertex = next.mat.vertex]]
    ELSE next

-----------------------------------------------------------------------------
(* Animation Driver *)

\* Mutant: the frame callback finds no material and pushes nothing.
FrameUniformKept(before, elapsed) == before

\* useFrame: uniforms.uTime.value = state.clock.getElapsedTime(), run before
\* the frame is drawn.
FrameUniform(before, elapsed) == elapsed

\* Mutant: the callback writes into whatever material is on screen.
useFrameAnyMaterial(o) == << o.mat >>

\* The writes of one frame, in order: the materials whose uTime the subscribed
\* frame callbacks assign. Only the two shader components call useFrame, each
\* with one assignment, on the material it holds at that frame; a component
\* that is not mounted (lit mode, the fault fallback, the placeholder of a
\* suspended load) has no callback subscribed.
useFrame(o) == IF o.comp \in ShaderComps THEN << o.mat >> ELSE << >>

-----------------------------------------------------------------------------
(* Resource Loader completion *)

\* Mutant: a completed load is put on screen whether or not its URL is still
\* the selected mesh.
InstallAlways(url, m, mode, cur) ==
    [comp |-> IF mode = "lit" THEN "CustomModelLit" ELSE "CustomModelShader",
     geom |-> [shape |-> "custom", scene |-> Normalize(GltfScene(url))],
     mat |-> StandardMaterial]

\* The loader's promise only fills the cache entry; nothing the loader does
\* touches the committed tree, which changes only by a render of PreviewMesh.
OnLoadResolved(url, m, mode, cur) == cur

-----------------------------------------------------------------------------
(* Host page *)

\* useState('// Converted code will appear here...')
ConvertedPlaceholder == "placeholder"

-----------------------------------------------------------------------------
(* State machine *)

Init ==
    /\ glsl = LibraryFirst
    /\ meshType = <<"box">>
    /\ lightingMode = "shader"
    /\ hasError = FALSE
    /\ prevResetKey = ResetKey(<<"box">>, "shader")
    /\ cache = [u \in UrlSet |-> Absent]
    /\ fetches = [u \in UrlSet |-> 0]
    /\ inflight = [u \in UrlSet |-> 0]
    /\ shown = Output(PreviewMesh(LibraryFirst, GLSL3_VERTEX, <<"box">>, "shader",
                                  [u \in UrlSet |-> Absent]))
    /\ clock = 0
    /\ uTime = 0
    /\ drawnTime = 0
    /\ lastEvent = [kind |-> "mount", faulted |-> FALSE]
    /\ pc = "idle"
    /\ vertexShader = GLSL3_VERTEX
    /\ wasm = "ready"
    /\ output = ConvertedPlaceholder
    /\ hash = << >>
    /\ sharedCode = << >>
    /\ hdriRotation = 0

\* CodeEditor onChange / onSelectSnippet / the share-link effect: setGlsl
EditSource(s) ==
    /\ pc = "idle"
    /\ s # glsl
    /\ glsl' = s
    /\ lastEvent' = [kind |-> "source", faulted |-> hasError]
    /\ pc' = "render"
    /\ UNCHANGED << meshType, lightingMode, hasError, prevResetKey, cache, fetches,
                    inflight, shown, clock, uTime, drawnTime >>
    /\ UNCHANGED << vertexShader, host >>

\* Sidebar onSelectMesh / handleUploadModel: setMeshType
SelectMesh(m) ==
    /\ pc = "idle"
    /\ m # meshType
    /\ meshType' = m
    /\ lastEvent' = [kind |-> "mesh", faulted |-> hasError]
    /\ pc' = "render"
    /\ UNCHANGED << glsl, lightingMode, hasError, prevResetKey, cache, fetches,
                    inflight, shown, clock, uTime, drawnTime >>
    /\ UNCHANGED << vertexShader, host >>

\* Mutant: the switch also puts the mesh selection back to the plane.
SetLightingModeAndMesh(l) ==
    /\ pc = "idle"
    /\ l # lightingMode
    /\ lightingMode' = l
    /\ meshType' = <<"plane">>
    /\ lastEvent' = [kind |-> "lighting", faulted |-> hasError]
    /\ pc' = "render"
    /\ UNCHANGED << glsl, hasError, prevResetKey, cache, fetches,
                    inflight, shown, clock, uTime, drawnTime >>
    /\ UNCHANGED << vertexShader, host >>

\* The Shader / Lit (HDRI) buttons: setLightingMode
SetLightingMode(l) ==
    /\ pc = "idle"
    /\ l # lightingMode
    /\ lightingMode' = l
    /\ lastEvent' = [kind |-> "lighting", faulted |-> hasError]
    /\ pc' = "render"
    /\ UNCHANGED << glsl, meshType, hasError, prevResetKey, cache, fetches,
                    inflight, shown, clock, uTime, drawnTime >>
    /\ UNCHANGED << vertexShader, host >>

\* ErrorBoundary.render with its children: the fallback while hasError; else
\* PreviewMesh under Suspense, whose throw is taken by getDerivedStateFromError.
\* A component keeps its uniforms (useMemo, no dependencies) while it stays
\* mounted and starts with uTime 0 when mounted anew. A component that
\* suspends is taken as unmounted: its frame callback is off while the
\* placeholder shows, and the uniform it comes back with is taken as fresh.
Render ==
    /\ pc = "render"
    /\ pc' = "didUpdate"
    /\ IF hasError
       THEN /\ shown' = BoundaryFallback(FallbackProp)
            /\ uTime' = 0
            /\ UNCHANGED << hasError, cache, fetches, inflight >>
       ELSE LET r == PreviewMesh(glsl, vertexShader, meshType, lightingMode, cache)
                u == UrlOf(meshType)
            IN  CASE r.result = "ok" ->
                       /\ shown' = KeyedShaderMaterial(shown, Output(r))
                       /\ uTime' = IF r.comp \in ShaderComps /\ shown.comp = r.comp
                                   THEN uTime ELSE 0
                       /\ cache' = IF isCustom(meshType)
                                   THEN [cache EXCEPT ![u].scene =
                                            SceneAfterClone(cache[u].scene, r.geom.scene)]
                                   ELSE cache
                       /\ UNCHANGED << hasError, fetches, inflight >>
                  [] r.result = "suspend" ->
                       /\ shown' = LoadingFallback
                       /\ uTime' = 0
                       /\ UNCHANGED << hasError, cache, fetches, inflight >>
                  [] r.result = "fetch" ->
                       /\ fetches[u] < MaxFetch
                       /\ shown' = LoadingFallback
                       /\ uTime' = 0
                       /\ cache' = [cache EXCEPT ![u] = Pending]
                       /\ fetches' = [fetches EXCEPT ![u] = @ + 1]
                       /\ inflight' = [inflight EXCEPT ![u] = @ + 1]
                       /\ UNCHANGED hasError
                  [] OTHER ->
                       /\ hasError' = TRUE
                       /\ shown' = BoundaryFallback(FallbackProp)
                       /\ uTime' = 0
                       /\ UNCHANGED << cache, fetches, inflight >>
    /\ UNCHANGED << glsl, meshType, lightingMode, prevResetKey, clock, drawnTime,
                    lastEvent >>
    /\ UNCHANGED << vertexShader, host >>

\* Mutant: the boundary resets on every update, whatever the key.
ComponentDidUpdateAnyUpdate ==
    /\ pc = "didUpdate"
    /\ prevResetKey' = ResetKey(meshType, lightingMode)
    /\ IF hasError
       THEN hasError' = FALSE /\ pc' = "render"
       ELSE hasError' = hasError /\ pc' = "idle"
    /\ UNCHANGED << glsl, meshType, lightingMode, cache, fetches, inflight, shown,
                    clock, uTime, drawnTime, lastEvent >>
    /\ UNCHANGED << vertexShader, host >>

\* ErrorBoundary.componentDidUpdate(prevProps) after the commit
ComponentDidUpdate ==
    /\ pc = "didUpdate"
    /\ prevResetKey' = ResetKey(meshType, lightingMode)
    /\ IF prevResetKey # ResetKey(meshType, lightingMode) /\ hasError
       THEN hasError' = FALSE /\ pc' = "render"
       ELSE hasError' = hasError /\ pc' = "idle"
    /\ UNCHANGED << glsl, meshType, lightingMode, cache, fetches, inflight, shown,
                    clock, uTime, drawnTime, lastEvent >>
    /\ UNCHANGED << vertexShader, host >>

\* A fetch of url settles: GLTFLoader resolves with the parsed scene or rejects.
\* Suspense renders PreviewMesh again if it is suspended on this url.
LoadSettle(url, ok) ==
    /\ pc = "idle"
    /\ inflight[url] > 0
    /\ inflight' = [inflight EXCEPT ![url] = @ - 1]
    /\ cache' = [cache EXCEPT ![url] = IF ok THEN Loaded(url) ELSE Failed]
    /\ IF shown.comp = "LoadingFallback" /\ isCustom(meshType) /\ UrlOf(meshType) = url
       THEN shown' = shown /\ pc' = "render"
       ELSE shown' = OnLoadResolved(url, meshType, lightingMode, shown) /\ pc' = "idle"
    /\ lastEvent' = [kind |-> "load", faulted |-> hasError]
    /\ UNCHANGED << glsl, meshType, lightingMode, hasError, prevResetKey, fetches,
                    clock, uTime, drawnTime >>
    /\ UNCHANGED << vertexShader, host >>

\* One turn of the render loop: the useFrame callbacks, then gl.render.
Frame(d) ==
    /\ pc = "idle"
    /\ clock + d <= MaxClock
    /\ clock' = clock + d
    /\ IF shown.comp \in ShaderComps
       THEN /\ uTime' = FrameUniform(uTime, clock')
            /\ drawnTime' = uTime'
       ELSE UNCHANGED << uTime, drawnTime >>
    /\ lastEvent' = [kind |-> "frame", faulted |-> hasError,
                     wrote |-> useFrame(shown)]
    /\ UNCHANGED << glsl, meshType, lightingMode, hasError, prevResetKey, cache,
                    fetches, inflight, shown, pc >>
    /\ UNCHANGED << vertexShader, host >>

Next ==
    \/ \E s \in Sources : EditSource(s)
    \/ \E m \in MeshTypes : SelectMesh(m)
    \/ \E l \in LightingModes : SetLightingMode(l)
    \/ Render
    \/ ComponentDidUpdate
    \/ \E u \in UrlSet, ok \in BOOLEAN : LoadSettle(u, ok)
    \/ \E d \in 0..1 : Frame(d)

Spec == Init /\ [][Next]_vars

-----------------------------------------------------------------------------
(* What a committed output looks like *)

\* The colour a material puts on screen: the flat fallback writes
\* vec4(1.0, 0.0, 1.0, 1.0); a rejected program draws nothing.
Colour(mat) ==
    CASE mat.type = "basic"    -> mat.color
      [] mat.type = "standard" -> "lit"
      [] OTHER -> IF mat.frag = FlatColorFallback THEN "magenta"
                  ELSE IF Compiles(mat.frag) THEN "author" ELSE "none"

Visual(o) == [shape |-> o.geom.shape, colour |-> Colour(o.mat)]

\* The bind of the author's source has been attempted and committed: shader
\* mode, and the geometry it is bound to exists.
BindCommitted ==
    /\ pc = "idle"
    /\ lightingMode = "shader"
    /\ isCustom(meshType) => cache[UrlOf(meshType)].st = "loaded"

Broken(src) == src # "" /\ ~Compiles(src)

Faulted == hasError /\ shown = BoundaryFallback(FallbackProp)

-----------------------------------------------------------------------------
(* Claims *)

\* C1: binding a syntactically invalid, non-empty fragment program in
\* ShaderDriven mode leaves the boundary Faulted with the fault fallback on
\* screen. (Stated as claimed; the code never raises on a rejected program.)
C1_InvalidSourceFaults == (BindCommitted /\ Broken(glsl)) => Faulted

\* C2, as claimed: once a mesh or lighting-mode change made while Faulted has
\* been committed, the boundary is Clean.
C2_ChangeAlwaysClean ==
    (pc = "idle" /\ lastEvent.kind \in {"mesh", "lighting"} /\ lastEvent.faulted)
        => ~hasError

\* C2, amended: once a mesh or lighting-mode change made while Faulted has
\* been committed, the fault has been cleared and PreviewMesh rendered again,
\* so the boundary is Faulted exactly if the new selection is a custom model
\* whose load has failed, and Clean otherwise.
C2_ChangeResetsFault ==
    (pc = "idle" /\ lastEvent.kind \in {"mesh", "lighting"} /\ lastEvent.faulted)
        => /\ hasError <=> (isCustom(meshType) /\ cache[UrlOf(meshType)].st = "error")
           /\ hasError <=> (shown = BoundaryFallback(FallbackProp))

C2_Witness ==
    /\ pc = "idle"
    /\ lastEvent = [kind |-> "mesh", faulted |-> TRUE]
    /\ ~hasError
    /\ shown.comp = "PrimitiveMeshShader"

\* C3: a Faulted boundary reset by selecting another primitive while the
\* source is broken is Faulted again once the change is committed. (Stated as
\* claimed; in the code the re-attempted bind raises nothing.)
C3_RefaultAfterMeshChange ==
    (/\ pc = "idle"
     /\ lastEvent = [kind |-> "mesh", faulted |-> TRUE]
     /\ ~isCustom(meshType)
     /\ lightingMode = "shader"
     /\ Broken(glsl)) => Faulted

\* C4: whenever the empty fragment source has been bound (ShaderDriven mode,
\* any primitive or loaded custom model), the boundary is Clean and the
\* selected mesh is drawn with the flat-colour fallback program, which the
\* backend accepts; the fault fallback is not shown.
C4_EmptySourceIsFlat ==
    (BindCommitted /\ glsl = "")
        => /\ ~hasError
           /\ shown.comp \in ShaderComps
           /\ shown.mat = ShaderMaterial(FlatColorFallback)
           /\ Compiles(shown.mat.frag)
           /\ Colour(shown.mat) = "magenta"
           /\ IF isCustom(meshType)
              THEN shown.geom.shape = "custom" /\ shown.geom.scene.url = UrlOf(meshType)
              ELSE shown.geom = PrimitiveGeometry(meshType)

C4_Witness ==
    /\ BindCommitted
    /\ glsl = ""
    /\ lastEvent.kind = "source"
    /\ meshType = <<"sphere">>
    /\ shown.mat.frag = FlatColorFallback

\* C5, as claimed: a source that fails the syntactic check is replaced by the
\* flat-colour fallback program when it is bound.
C5_PreflightSubstitutes ==
    (pc = "idle" /\ shown.comp \in ShaderComps /\ ~Compiles(glsl))
        => shown.mat.frag = FlatColorFallback

\* C5, amended: the fallback program is substituted only for the empty source;
\* every non-empty source, accepted by the backend or not, is bound verbatim,
\* and the bind raises nothing.
C5_OnlyEmptySubstituted ==
    (pc = "idle" /\ shown.comp \in ShaderComps)
        => /\ shown.mat.frag = (IF glsl = "" THEN FlatColorFallback ELSE glsl)
           /\ ~hasError

C5_Witness ==
    /\ pc = "idle"
    /\ shown.comp \in ShaderComps
    /\ glsl = "bad"
    /\ shown.mat.frag = "bad"

\* C6: the picture for empty input (flat fallback on the selected mesh)
\* differs in colour or in shape from the boundary's fault fallback. (Stated
\* as claimed; both are magenta, and on the box mesh both are boxes.)
C6_EmptyDiffersFromFault ==
    (pc = "idle" /\ glsl = "" /\ shown.comp \in ShaderComps)
        => \/ Visual(shown).colour # Visual(BoundaryFallback(FallbackProp)).colour
           \/ Visual(shown).shape # Visual(BoundaryFallback(FallbackProp)).shape

\* C7: the elapsed time drawn with the author's material never decreases over
\* any steps (mesh, lighting and source changes, remounts, loads), and every
\* frame drawn with a shader material draws the Canvas clock's value, so a
\* fresh uniform's 0 is never drawn after time has passed.
C7_ElapsedMonotonic ==
    [][ /\ drawnTime' >= drawnTime
        /\ clock' >= clock
        /\ (lastEvent'.kind = "frame" /\ shown.comp \in ShaderComps)
              => (uTime' = clock' /\ drawnTime' = clock') ]_vars

\* A remount after time has passed: the new uniform holds 0, the last frame
\* drew a later time.
C7_Witness ==
    /\ pc = "idle"
    /\ lastEvent.kind = "lighting"
    /\ shown.comp \in ShaderComps
    /\ uTime = 0
    /\ drawnTime >= 1

\* C8: in every committed state the geometry on screen is a placeholder, the
\* fault fallback, or the geometry of the currently selected MeshDescriptor; a
\* load that completes for a URL that is not selected changes nothing on
\* screen.
C8_ShownBelongsToActive ==
    pc = "idle"
        => \/ shown \in {LoadingFallback, BoundaryFallback(FallbackProp)}
           \/ /\ isCustom(meshType)
              /\ shown.geom.shape = "custom"
              /\ <<"custom:">> \o shown.geom.scene.url = meshType
              /\ cache[shown.geom.scene.url].st = "loaded"
           \/ /\ ~isCustom(meshType)
              /\ shown.geom = PrimitiveGeometry(meshType)

\* The author went blob1 -> blob2 -> blob1; blob2's load completed while
\* blob1 was selected and still pending.
C8_Witness ==
    /\ pc = "idle"
    /\ lastEvent.kind = "load"
    /\ meshType = CustomMesh(<<"blob1">>)
    /\ cache[<<"blob1">>].st = "pending"
    /\ cache[<<"blob2">>].st = "loaded"
    /\ shown = LoadingFallback

\* C9: no URL is ever fetched twice; once a URL is loaded its cache entry is
\* the scene as first loaded (untouched by the normalisation and material
\* assignment of any selection), and every selection of it shows that scene
\* normalised the same way.
C9_OneFetchCachedVerbatim ==
    /\ \A u \in UrlSet :
          /\ fetches[u] <= 1
          /\ cache[u].st = "loaded"
                => cache[u] = Loaded(u) /\ fetches[u] = 1 /\ inflight[u] = 0
    /\ (pc = "idle" /\ shown.comp \in {"CustomModelShader", "CustomModelLit"})
          => shown.geom.scene =
                AssignMaterial(Normalize(GltfScene(UrlOf(meshType))), shown.mat)

\* A loaded model selected again after another mesh was on screen.
C9_Witness ==
    /\ pc = "idle"
    /\ lastEvent.kind = "mesh"
    /\ shown.comp = "CustomModelShader"
    /\ cache[<<"blob1">>].st = "loaded"
    /\ cache[<<"blob2">>].st = "loaded"
    /\ meshType = CustomMesh(<<"blob1">>)

\* C10: at most one fetch per URL is in flight; a request made while the URL
\* is pending starts none and waits on the pending one; and a step changes
\* the cache entry of at most one URL, so loads of different URLs do not
\* affect each other.
C10_PendingShared ==
    /\ [](\A u \in UrlSet :
            /\ inflight[u] <= 1
            /\ cache[u].st = "pending" <=> inflight[u] = 1
            /\ cache[u].st = "pending" => fetches[u] = 1)
    /\ [][ \A u, v \in UrlSet :
             (u # v /\ cache'[u] # cache[u])
                => (cache'[v] = cache[v] /\ inflight'[v] = inflight[v]) ]_vars

\* The lighting mode was switched while blob1 was pending (and blob2 too):
\* the lit component waits on the same fetch.
C10_Witness ==
    /\ pc = "idle"
    /\ lastEvent.kind = "lighting"
    /\ lightingMode = "lit"
    /\ meshType = CustomMesh(<<"blob1">>)
    /\ cache[<<"blob1">>].st = "pending"
    /\ cache[<<"blob2">>].st = "pending"
    /\ fetches[<<"blob1">>] = 1
    /\ shown = LoadingFallback

-----------------------------------------------------------------------------
(* Live materials *)

\* The materials bound to geometry that is drawn: the one material of a
\* primitive, a placeholder or a fallback; for a custom model, the materials
\* of its mesh leaves.
LiveMaterials(o) ==
    IF o.geom.shape = "custom"
    THEN {o.geom.scene.materials[i] : i \in 1..Len(o.geom.scene.materials)}
    ELSE {o.mat}

\* C11: in every reachable state exactly one material is live, that is, bound
\* to the drawn geometry: never none, never two. (Stated as claimed; a loaded
\* model without mesh leaves is shown with no material bound to anything.)
C11_ExactlyOneLive == Cardinality(LiveMaterials(shown)) = 1

-----------------------------------------------------------------------------
(* The preview driven through all of its props *)

\* A host renders <ShaderPreview vertexShader={v} ... /> with another vertex
\* text. (App renders it without the prop, so under Spec the text stays
\* GLSL3_VERTEX.)
SetVertexShader(v) ==
    /\ pc = "idle"
    /\ v # vertexShader
    /\ vertexShader' = v
    /\ lastEvent' = [kind |-> "vertex", faulted |-> hasError]
    /\ pc' = "render"
    /\ UNCHANGED << glsl, meshType, lightingMode, hasError, prevResetKey, cache,
                    fetches, inflight, shown, clock, uTime, drawnTime, host >>

NextProps ==
    \/ Next
    \/ \E v \in VertexTexts : SetVertexShader(v)

SpecProps == Init /\ [][NextProps]_vars

\* C12: every change of the program source, vertex text or fragment text,
\* yields a newly built material, and no material is changed in place: on
\* both the primitive and the custom path, the shader material on screen is
\* the one constructed from the current two texts. (Stated as claimed; on the
\* primitive path a change of the vertex text alone is written into the
\* mounted material.)
C12_SourceChangeRebuilds ==
    (pc = "idle" /\ shown.comp \in ShaderComps)
        => shown.mat = ShaderMaterialOf(vertexShader, safeFragmentShader(glsl))

-----------------------------------------------------------------------------
(* Geometry apart from the material bound to it *)

\* The geometry PreviewMesh draws for a mesh selection, in either mode
SelectedGeometry(m) ==
    IF isCustom(m)
    THEN [shape |-> "custom", scene |-> Normalize(GltfScene(UrlOf(m)))]
    ELSE PrimitiveGeometry(m)

\* A geometry with the materials of its mesh leaves left out of the comparison
Unbound(g) ==
    IF g.shape = "custom"
    THEN [g EXCEPT !.scene = AssignMaterial(g.scene, "unbound")]
    ELSE g

\* The material PreviewMesh binds in a mode
ModeMaterial(mode, vertex, frag) ==
    IF mode = "lit" THEN StandardMaterial
    ELSE ShaderMaterialOf(vertex, safeFragmentShader(frag))

\* C13: switching the lighting mode changes only which material is bound:
\* the switch leaves the mesh selection and the source texts as they were,
\* and once it is committed the selected mesh is drawn with the same geometry
\* as in the other mode, under the material of the new mode.
C13_LightingSwitchOnlyRebinds ==
    /\ [][(lightingMode' # lightingMode)
             => /\ meshType' = meshType
                /\ glsl' = glsl
                /\ vertexShader' = vertexShader]_vars
    /\ []((/\ pc = "idle"
           /\ lastEvent.kind = "lighting"
           /\ shown.comp \notin {"LoadingFallback", "ErrorFallback"})
             => /\ Unbound(shown.geom) = Unbound(SelectedGeometry(meshType))
                /\ shown.mat = ModeMaterial(lightingMode, vertexShader, glsl))

C13_Witness ==
    /\ pc = "idle"
    /\ lastEvent.kind = "lighting"
    /\ lightingMode = "lit"
    /\ shown.comp = "CustomModelLit"
    /\ meshType = CustomMesh(<<"blob1">>)
    /\ glsl = "ok2"

-----------------------------------------------------------------------------
(* Primitive kinds *)

PrimitiveComps == {"PrimitiveMeshShader", "PrimitiveMeshLit"}

\* C14: each of the twelve primitive kinds of the picker is drawn as its own
\* geometry: the committed primitive has the shape of the selected kind, and
\* no other kind resolves to the geometry on screen. (Stated as claimed; the
\* switch knows five kinds and draws every other as the plane.)
C14_EachKindItsOwnGeometry ==
    (pc = "idle" /\ shown.comp \in PrimitiveComps)
        => /\ shown.geom.shape = meshType[1]
           /\ \A k \in PickerKinds \ {meshType[1]} :
                  PrimitiveGeometry(<<k>>) # shown.geom

-----------------------------------------------------------------------------
(* Load errors *)

\* The meshes of a scene that can be drawn
Drawable(s) == Len(s.materials)

\* C15: a load ends in a LoadError and installs no model when the fetch fails,
\* when the parse fails, or when the parsed scene has no drawable mesh: with
\* such a model selected and its load settled, the boundary is Faulted and
\* the fault fallback is on screen. (Stated as claimed; the code has no check
\* for a scene without meshes.)
C15_FailedLoadNeverInstalls ==
    LET u == UrlOf(meshType) IN
    (/\ pc = "idle"
     /\ isCustom(meshType)
     /\ \/ cache[u].st = "error"
        \/ cache[u].st = "loaded" /\ Drawable(GltfScene(u)) = 0)
        => Faulted /\ shown.geom.shape # "custom"

-----------------------------------------------------------------------------
(* The session after errors *)

\* Something is on screen: a material is bound to drawn geometry and its
\* program puts out a colour.
Drawn(o) ==
    /\ LiveMaterials(o) # {}
    /\ \A mat \in LiveMaterials(o) : Colour(mat) # "none"

\* C16: no load error, compile error or render fault ends the session: after
\* any sequence of events, errors among them, the preview is still mounted,
\* still takes mesh, source and lighting events (their handlers ask only for
\* a settled commit), and shows the selected mesh or, at worst, a fallback
\* visual. (Stated as claimed; after a rejected program, or a model without
\* meshes, nothing at all is drawn.)
C16_NoErrorIsFatal ==
    pc = "idle" => /\ wasm = "ready"
                   /\ shown # NoFallback
                   /\ Drawn(shown)

-----------------------------------------------------------------------------
(* The page with its converter engine *)

\* What wasm.convert_glsl does with a text: a result with success, a result
\* with an error, or a raised exception.
ConvertResults == {"success", "failure", "raise"}

\* App's first render: the engine is still loading, App returns the spinner
\* and mounts no ShaderPreview.
InitHost ==
    /\ glsl = LibraryFirst
    /\ meshType = <<"box">>
    /\ lightingMode = "shader"
    /\ hasError = FALSE
    /\ prevResetKey = ResetKey(<<"box">>, "shader")
    /\ cache = [u \in UrlSet |-> Absent]
    /\ fetches = [u \in UrlSet |-> 0]
    /\ inflight = [u \in UrlSet |-> 0]
    /\ shown = NoFallback
    /\ clock = 0
    /\ uTime = 0
    /\ drawnTime = 0
    /\ lastEvent = [kind |-> "mount", faulted |-> FALSE]
    /\ pc = "idle"
    /\ vertexShader = GLSL3_VERTEX
    /\ wasm = "loading"
    /\ output = ConvertedPlaceholder
    /\ hash = << >>
    /\ sharedCode = << >>
    /\ hdriRotation = 0

\* useWasm: the dynamic import resolves, setWasm(module); isReady becomes true
\* and App renders the page with <ShaderPreview fragmentShader={glsl}
\* meshType={meshType} />.
WasmLoaded ==
    /\ wasm = "loading"
    /\ wasm' = "ready"
    /\ shown' = Output(PreviewMesh(glsl, vertexShader, meshType, lightingMode, cache))
    /\ UNCHANGED << glsl, meshType, lightingMode, hasError, prevResetKey, cache,
                    fetches, inflight, clock, uTime, drawnTime, lastEvent, pc,
                    vertexShader, output, hash, sharedCode, hdriRotation >>

\* useWasm: the import or its initialisation raises, setError(e); App returns
\* "Failed to load WASM Engine" from then on.
WasmFailed ==
    /\ wasm = "loading"
    /\ wasm' = "error"
    /\ UNCHANGED << glsl, meshType, lightingMode, hasError, prevResetKey, cache,
                    fetches, inflight, shown, clock, uTime, drawnTime, lastEvent,
                    pc, vertexShader, output, hash, sharedCode, hdriRotation >>

\* Mutant: the converted text is also put into the editor.
handleConvertIntoEditor(res) ==
    /\ pc = "idle"
    /\ wasm = "ready"
    /\ output' = "converted"
    /\ glsl' = "ok2"
    /\ lastEvent' = [kind |-> "convert", faulted |-> hasError]
    /\ pc' = "render"
    /\ UNCHANGED << meshType, lightingMode, hasError, prevResetKey, cache,
                    fetches, inflight, shown, clock, uTime, drawnTime,
                    vertexShader, wasm, hash, sharedCode, hdriRotation >>

\* The Convert button: if (!wasm) return; res = wasm.convert_glsl(glsl, ...);
\* setOutput(res.output) or setOutput(`// Error: ...`). An exception of the
\* engine leaves the handler before either.
handleConvert(res) ==
    /\ pc = "idle"
    /\ wasm = "ready"
    /\ output' = CASE res = "success" -> "converted"
                   [] res = "failure" -> "error"
                   [] OTHER           -> output
    /\ lastEvent' = [kind |-> "convert", faulted |-> hasError]
    /\ UNCHANGED << glsl, meshType, lightingMode, hasError, prevResetKey, cache,
                    fetches, inflight, shown, clock, uTime, drawnTime, pc,
                    vertexShader, wasm, hash, sharedCode, hdriRotation >>

\* The page exists, with its handlers and its frame loop, only once the
\* engine is ready.
NextHost ==
    \/ WasmLoaded
    \/ WasmFailed
    \/ \E res \in ConvertResults : handleConvert(res)
    \/ wasm = "ready" /\ Next

SpecHost == InitHost /\ [][NextHost]_vars

PreviewShown == shown # NoFallback

\* C17, as claimed: the preview is shown whether or not the converter engine
\* is available: once the engine's load has settled, either way, the preview
\* is on the page.
C17_PreviewShownRegardless == wasm # "loading" => PreviewShown

\* C17, amended: running Convert, with a success, a failure or an exception of
\* the engine, changes neither the source text, the mesh selection, the
\* lighting mode, what the preview shows nor the boundary's fault state; and
\* the preview is on the page exactly while the engine is loaded.
C17_ConvertLeavesPreview ==
    /\ [][(output' # output \/ (lastEvent'.kind = "convert" /\ lastEvent' # lastEvent))
             => /\ glsl' = glsl
                /\ vertexShader' = vertexShader
                /\ meshType' = meshType
                /\ lightingMode' = lightingMode
                /\ shown' = shown
                /\ hasError' = hasError
                /\ pc' = pc]_vars
    /\ [](PreviewShown <=> wasm = "ready")

C17_Witness ==
    /\ lastEvent = [kind |-> "convert", faulted |-> TRUE]
    /\ output = "error"
    /\ Faulted
    /\ glsl = "bad"

-----------------------------------------------------------------------------
(* Determinism of the bind *)

\* What a bind yields: the two program texts and the uniform contract
ProgramAndContract(mat) ==
    [vertex |-> mat.vertex, frag |-> mat.frag, uniforms |-> mat.uniforms]

\* The material a session binds for a source as its first act: on the box it
\* starts with, in shader mode, with nothing loaded and nothing bound before.
FreshBind(frag, vertex) ==
    PreviewMesh(frag, vertex, <<"box">>, "shader", [u \in UrlSet |-> Absent]).mat

\* C18: the bind is deterministic: whatever was bound before, whichever mesh
\* is selected and whatever the lighting history, the shader material bound
\* for a source has the program texts and the uniform contract that a fresh
\* session binds for the same source; so any two binds of one source agree.
C18_BindDeterministic ==
    (pc = "idle" /\ shown.comp \in ShaderComps)
        => ProgramAndContract(shown.mat)
               = ProgramAndContract(FreshBind(glsl, vertexShader))

C18_Witness ==
    /\ pc = "idle"
    /\ shown.comp = "CustomModelShader"
    /\ glsl = ""
    /\ vertexShader = "v1"
    /\ lastEvent.kind = "lighting"

-----------------------------------------------------------------------------
(* Share links: UrlService over texts written out as UTF-16 code units *)

MaxLen == 3

\* Code units a text is made of here: 'A', line feed, U+00FF and U+03C0 (pi)
Chars == {65, 10, 255, 960}

RECURSIVE SeqsUpTo(_, _)
SeqsUpTo(S, n) ==
    IF n = 0 THEN {<< >>}
    ELSE LET shorter == SeqsUpTo(S, n - 1)
         IN  shorter \cup {Append(s, c) : s \in {t \in shorter : Len(t) = n - 1}, c \in S}

\* Texts the editor can hold
Texts == SeqsUpTo(Chars, MaxLen)

\* SHADER_LIBRARY[0].code, the text a session starts with
LibraryFirstText == <<65, 10>>

\* Values that are no text: null, and an exception on its way out
Null == <<0 - 1>>

Raised == <<0 - 2>>

\* btoa takes a string whose code units all fit a byte
Latin1(s) == \A i \in 1..Len(s) : s[i] <= 255

\* Base64 of a byte string: a sequence of digits 0..63, padded with 64 ('=')
\* to a multiple of four.
RECURSIVE Base64(_)
Base64(b) ==
    CASE Len(b) = 0 -> << >>
      [] Len(b) = 1 -> << b[1] \div 4, (b[1] % 4) * 16, 64, 64 >>
      [] Len(b) = 2 -> << b[1] \div 4, (b[1] % 4) * 16 + b[2] \div 16,
                          (b[2] % 16) * 4, 64 >>
      [] OTHER      -> << b[1] \div 4, (b[1] % 4) * 16 + b[2] \div 16,
                          (b[2] % 16) * 4 + b[3] \div 64, b[3] % 64 >>
                       \o Base64(SubSeq(b, 4, Len(b)))

\* The bytes of a sequence of digits; the bits left over by a last group of
\* two or three digits are dropped.
RECURSIVE Bytes(_)
Bytes(d) ==
    CASE Len(d) <= 1 -> << >>
      [] Len(d) = 2  -> << d[1] * 4 + d[2] \div 16 >>
      [] Len(d) = 3  -> << d[1] * 4 + d[2] \div 16, (d[2] % 16) * 16 + d[3] \div 4 >>
      [] OTHER       -> << d[1] * 4 + d[2] \div 16, (d[2] % 16) * 16 + d[3] \div 4,
                           (d[3] % 4) * 64 + d[4] >>
                        \o Bytes(SubSeq(d, 5, Len(d)))

\* atob: with a length that is a multiple of four, one or two '=' at the end
\* are removed; what is left must hold digits only and not be one more than a
\* multiple of four long.
Atob(h) ==
    LET n == Len(h)
        cut == IF n > 0 /\ n % 4 = 0
               THEN IF h[n] = 64 /\ h[n - 1] = 64 THEN 2
                    ELSE IF h[n] = 64 THEN 1 ELSE 0
               ELSE 0
        d == SubSeq(h, 1, n - cut)
    IN  IF Len(d) % 4 = 1 \/ \E i \in 1..Len(d) : d[i] \notin 0..63
        THEN Raised ELSE Bytes(d)

\* UrlService.encode: btoa(code), with nothing to take what btoa raises
encode(code) == IF Latin1(code) THEN Base64(code) ELSE Raised

\* UrlService.decode: try { return atob(hash) } catch (e) { return null }
decode(h) == LET r == Atob(h) IN IF r = Raised THEN Null ELSE r

\* A page on which the editor holds any text; the preview is left as a
\* session starts it, this part follows the text only.
InitShare ==
    /\ glsl \in Texts
    /\ meshType = <<"box">>
    /\ lightingMode = "shader"
    /\ hasError = FALSE
    /\ prevResetKey = ResetKey(<<"box">>, "shader")
    /\ cache = [u \in UrlSet |-> Absent]
    /\ fetches = [u \in UrlSet |-> 0]
    /\ inflight = [u \in UrlSet |-> 0]
    /\ shown = Output(PreviewMesh(LibraryFirst, GLSL3_VERTEX, <<"box">>, "shader",
                                  [u \in UrlSet |-> Absent]))
    /\ clock = 0
    /\ uTime = 0
    /\ drawnTime = 0
    /\ lastEvent = [kind |-> "mount", faulted |-> FALSE]
    /\ pc = "idle"
    /\ vertexShader = GLSL3_VERTEX
    /\ wasm = "ready"
    /\ output = ConvertedPlaceholder
    /\ hash = << >>
    /\ sharedCode = << >>
    /\ hdriRotation = 0

\* The Share button: hash = UrlService.encode(glsl); window.location.hash =
\* hash. What encode raises leaves the handler before the assignment.
handleShare ==
    /\ lastEvent.kind = "mount"
    /\ sharedCode' = glsl
    /\ IF encode(glsl) = Raised
       THEN /\ hash' = hash
            /\ lastEvent' = [kind |-> "shareRaised", faulted |-> hasError]
       ELSE /\ hash' = encode(glsl)
            /\ lastEvent' = [kind |-> "share", faulted |-> hasError]
    /\ UNCHANGED << glsl, meshType, lightingMode, hasError, prevResetKey, cache,
                    fetches, inflight, shown, clock, uTime, drawnTime, pc,
                    vertexShader, wasm, output, hdriRotation >>

\* The link is opened: a new App starts with the library's first text, and its
\* mount effect reads the hash: if (hash) { decoded = UrlService.decode(hash);
\* if (decoded) setGlsl(decoded) }.
OpenLink ==
    /\ lastEvent.kind = "share"
    /\ glsl' = IF hash # << >> /\ decode(hash) # Null /\ decode(hash) # << >>
               THEN decode(hash) ELSE LibraryFirstText
    /\ lastEvent' = [kind |-> "open", faulted |-> hasError]
    /\ UNCHANGED << meshType, lightingMode, hasError, prevResetKey, cache,
                    fetches, inflight, shown, clock, uTime, drawnTime, pc,
                    vertexShader, wasm, output, hash, sharedCode, hdriRotation >>

NextShare == handleShare \/ OpenLink

SpecShare == InitShare /\ [][NextShare]_vars

\* C19: share links round-trip: for every text the editor can hold, encode
\* does not fail, decode gives back the text encode was given, and opening
\* the link loads exactly that text. (Stated as claimed; btoa raises on a
\* code unit above U+00FF, and a link to the empty text loads the library's
\* first shader.)
C19_ShareRoundTrips ==
    /\ lastEvent.kind # "shareRaised"
    /\ lastEvent.kind = "share" => decode(hash) = sharedCode
    /\ lastEvent.kind = "open" => glsl = sharedCode

-----------------------------------------------------------------------------
(* The writes of a frame *)

-----------------------------------------------------------------------------
(* A pending load *)

\* The load of the selected custom model is pending, the commit settled
PendingActive ==
    /\ pc = "idle"
    /\ isCustom(meshType)
    /\ cache[UrlOf(meshType)].st = "pending"

\* C22: while the load of the selected custom model is pending, the yellow
\* loading placeholder is what is shown and the boundary is Clean; the frame
\* loop is not blocked (a frame can be taken as long as the model's clock has
\* room), and a frame taken then advances the clock and leaves the
\* placeholder, the boundary and the pending load as they are.
C22_PendingShowsPlaceholder ==
    /\ [](PendingActive
            => /\ shown.comp = "LoadingFallback"
               /\ shown.mat = [type |-> "basic", color |-> "yellow", wireframe |-> TRUE]
               /\ ~hasError
               /\ clock < MaxClock => ENABLED Frame(1))
    /\ [][(PendingActive /\ clock' # clock)
             => /\ clock' > clock
                /\ shown' = shown
                /\ hasError' = hasError
                /\ cache' = cache]_vars

\* Two frames were taken while blob1 was loading.
C22_Witness ==
    /\ PendingActive
    /\ lastEvent.kind = "frame"
    /\ clock = 2
    /\ shown.comp = "LoadingFallback"
    /\ meshType = CustomMesh(<<"blob1">>)

-----------------------------------------------------------------------------
(* The leaves of a custom model *)

\* C23: for a custom model in shader mode, every mesh leaf of the installed
\* scene is bound to the one live material, the shader material built from
\* the current texts; so after a source edit no leaf keeps the material of
\* the text before.
C23_LeavesShareLiveMaterial ==
    (pc = "idle" /\ shown.comp = "CustomModelShader")
        => \A i \in 1..Len(shown.geom.scene.materials) :
              /\ shown.geom.scene.materials[i] = shown.mat
              /\ shown.geom.scene.materials[i]
                    = ShaderMaterialOf(vertexShader, safeFragmentShader(glsl))

\* The two-leaf model after its source was edited to another text.
C23_Witness ==
    /\ pc = "idle"
    /\ lastEvent.kind = "source"
    /\ shown.comp = "CustomModelShader"
    /\ Len(shown.geom.scene.materials) = 2
    /\ glsl = "ok2"
    /\ vertexShader = "v1"

-----------------------------------------------------------------------------
(* Lit mode *)

LitComps == {"PrimitiveMeshLit", "CustomModelLit"}

\* C24: in lit mode the bound material does not depend on the author's
\* source. Whatever the source text is (broken and empty included), a mesh
\* drawn in lit mode carries the standard material on all of it; a switch to
\* lit mode made while Clean leaves the boundary Clean; and a source edit
\* made in lit mode leaves the boundary as it was, so never sets it Faulted.
C24_LitIgnoresSource ==
    (pc = "idle" /\ lightingMode = "lit")
        => /\ shown.comp \in LitComps
              => /\ shown.mat = StandardMaterial
                 /\ LiveMaterials(shown) \subseteq {StandardMaterial}
           /\ ~hasError => shown.comp \in LitComps \cup {"LoadingFallback"}
           /\ (lastEvent.kind = "lighting" /\ ~lastEvent.faulted) => ~hasError
           /\ lastEvent.kind = "source" => hasError = lastEvent.faulted

\* The source was edited to a rejected text while a loaded model was shown in
\* lit mode.
C24_Witness ==
    /\ pc = "idle"
    /\ lightingMode = "lit"
    /\ lastEvent = [kind |-> "source", faulted |-> FALSE]
    /\ glsl = "bad"
    /\ ~hasError
    /\ shown.comp = "CustomModelLit"
    /\ Len(shown.geom.scene.materials) = 2

-----------------------------------------------------------------------------
(* Normalisation over the files a load can deliver *)

MaxCoord == 2

\* Bounding boxes a file's geometry can have: any lo <= hi per axis
Boxes ==
    {b \in [lo : [1..2 -> (0 - MaxCoord)..MaxCoord], hi : [1..2 -> (0 - MaxCoord)..MaxCoord]] :
        \A a \in 1..2 : b.lo[a] <= b.hi[a]}

\* Scenes GLTFLoader can deliver for blob1: one mesh with any such box (a
\* single point included), or no mesh at all.
Scenes ==
    {LoadedScene(<<"blob1">>, <<b.lo[1], b.lo[2]>>, <<b.hi[1], b.hi[2]>>, <<FileMaterial>>) :
        b \in Boxes}
    \cup {LoadedScene(<<"blob1">>, <<0, 0>>, <<0, 0>>, << >>)}

\* The uploaded model blob1 is selected and its load has just resolved with
\* some scene; the placeholder is still shown and PreviewMesh is about to be
\* rendered again.
InitNormalize ==
    /\ glsl = LibraryFirst
    /\ meshType = CustomMesh(<<"blob1">>)
    /\ lightingMode = "shader"
    /\ hasError = FALSE
    /\ prevResetKey = ResetKey(CustomMesh(<<"blob1">>), "shader")
    /\ \E s \in Scenes :
          cache = [u \in UrlSet |->
                     IF u = <<"blob1">> THEN [st |-> "loaded", scene |-> s] ELSE Absent]
    /\ fetches = [u \in UrlSet |-> IF u = <<"blob1">> THEN 1 ELSE 0]
    /\ inflight = [u \in UrlSet |-> 0]
    /\ shown = LoadingFallback
    /\ clock = 0
    /\ uTime = 0
    /\ drawnTime = 0
    /\ lastEvent = [kind |-> "load", faulted |-> FALSE]
    /\ pc = "render"
    /\ vertexShader = GLSL3_VERTEX
    /\ wasm = "ready"
    /\ output = ConvertedPlaceholder
    /\ hash = << >>
    /\ sharedCode = << >>
    /\ hdriRotation = 0

\* The model is installed by the render, in either lighting mode.
NextNormalize ==
    \/ Render
    \/ ComponentDidUpdate
    \/ \E l \in LightingModes : SetLightingMode(l)

SpecNormalize == InitNormalize /\ [][NextNormalize]_vars

\* The larger of two integers
Max2(x, y) == IF x >= y THEN x ELSE y

\* C25: an installed model is the loaded scene scaled and recentred: with d
\* the longest dimension of the loaded bounding box, when d > 0 the scale is
\* 2/d, so the longest dimension of the installed model is 2 (one axis
\* measures 2, none more) and the centre of its box is the origin; when
\* d = 0 (a single point, or no geometry) the scale is 2, nothing is divided
\* by zero, and the centre is the origin.
C25_NormalizeToTwoUnits ==
    (pc = "idle" /\ shown.geom.shape = "custom")
        => LET s0 == cache[UrlOf(meshType)].scene
               n == shown.geom.scene
               empty == s0.materials = << >>
               ext0(a) == IF empty THEN 0 ELSE s0.hi[a] - s0.lo[a]
               d == Max2(ext0(1), ext0(2))
               extN(a) == RMul(<<ext0(a), 1>>, n.scale)
               ctrN(a) == IF empty THEN n.position[a]
                          ELSE RAdd(RMul(Rat(s0.lo[a] + s0.hi[a], 2), n.scale),
                                    n.position[a])
           IN  /\ n.scale[2] > 0
               /\ d > 0 => /\ n.scale = Rat(2, d)
                           /\ \E a \in 1..2 : extN(a) = <<2, 1>>
                           /\ \A a \in 1..2 : RLeq(extN(a), <<2, 1>>)
               /\ d = 0 => n.scale = <<2, 1>>
               /\ \A a \in 1..2 : ctrN(a) = <<0, 1>>

\* A model 1 wide and 3 high, off centre, installed in lit mode.
C25_Witness ==
    /\ pc = "idle"
    /\ shown.comp = "CustomModelLit"
    /\ cache[<<"blob1">>].scene.lo = <<1, 0 - 1>>
    /\ cache[<<"blob1">>].scene.hi = <<2, 2>>
    /\ shown.geom.scene.scale = <<2, 3>>
    /\ shown.geom.scene.position = << <<0 - 1, 1>>, <<0 - 1, 3>> >>

-----------------------------------------------------------------------------
(* Release of materials *)

CustomComps == {"CustomModelShader", "CustomModelLit"}

\* Whether a commit that replaces output prev by output next keeps the
\* material object of prev in use: a custom model keeps it while the
\* component stays and the useMemo dependencies (the two texts) are equal; a
\* JSX material is kept while its element stays mounted under its key.
MaterialKept(prev, next) ==
    /\ prev.comp = next.comp
    /\ prev.geom.shape = next.geom.shape
    /\ IF prev.comp \in CustomComps
       THEN prev.mat = next.mat
       ELSE prev.mat.type = "shader" => prev.mat.frag = next.mat.frag

\* The materials released when a commit replaces prev by next. A material
\* declared in JSX (<shaderMaterial>, <meshStandardMaterial>,
\* <meshBasicMaterial>) is disposed by the renderer when its element
\* unmounts. The material of a custom model is constructed by hand (new
\* THREE.ShaderMaterial in useMemo, new THREE.MeshStandardMaterial in the
\* scene memo) and handed over inside <primitive object={scene} />; no
\* effect, cleanup or dispose() call releases it.
Disposed(prev, next) ==
    IF MaterialKept(prev, next) \/ prev.comp \in CustomComps
    THEN {}
    ELSE {prev.mat}

\* The materials a commit takes out of use that were drawn, and so have a
\* program on the GPU (a model without mesh leaves draws nothing)
Replaced(prev, next) == IF MaterialKept(prev, next) THEN {} ELSE LiveMaterials(prev)

\* C26 (as claimed, the part on rebinds): a material replaced by a rebind
\* does not stay allocated, that is, every commit releases the material it
\* takes out of use.
C26_ReplacedIsReleased ==
    [][Replaced(shown, shown') \subseteq Disposed(shown, shown')]_vars

-----------------------------------------------------------------------------
(* The uniform contract *)

\* C27: whenever an author-shader component is shown, its material and the
\* material on every drawn leaf carry both uTime and uResolution in their
\* uniform block: for every text, the substitute for the empty text
\* included, and also after a changed vertex text was written into a
\* material that was kept.
C27_BothUniformsCarried ==
    shown.comp \in ShaderComps
        => \A mat \in LiveMaterials(shown) \cup {shown.mat} :
              {"uTime", "uResolution"} \subseteq mat.uniforms

\* The substitute for the empty text is bound to a box whose material was
\* kept across a change of the vertex text.
C27_Witness ==
    /\ pc = "idle"
    /\ glsl = ""
    /\ shown.comp = "PrimitiveMeshShader"
    /\ shown.mat.frag = FlatColorFallback
    /\ shown.mat.built # <<shown.mat.vertex, shown.mat.frag>>
    /\ shown.mat.uniforms = {"uTime", "uResolution"}

-----------------------------------------------------------------------------
(* Events that leave the boundary alone *)

\* Positions of the Rotate HDRI slider that are told apart (tenths of a radian)
Rotations == {0, 1}

\* The Rotate HDRI slider, rendered in lit mode only:
\* onChange={(e) => setHdriRotation(parseFloat(e.target.value))}; ShaderPreview
\* renders again with the new environmentRotation.
SetHdriRotation(r) ==
    /\ pc = "idle"
    /\ lightingMode = "lit"
    /\ r # hdriRotation
    /\ hdriRotation' = r
    /\ lastEvent' = [kind |-> "rotate", faulted |-> hasError]
    /\ pc' = "render"
    /\ UNCHANGED << glsl, meshType, lightingMode, hasError, prevResetKey, cache,
                    fetches, inflight, shown, clock, uTime, drawnTime,
                    vertexShader, wasm, output, hash, sharedCode >>

\* The page with the engine loaded: the preview's own events, the Convert
\* button and the rotation slider.
NextPage ==
    \/ Next
    \/ \E res \in ConvertResults : handleConvert(res)
    \/ \E r \in Rotations : SetHdriRotation(r)

SpecPage == Init /\ [][NextPage]_vars

\* C28: while the boundary is Faulted and has seen the current resetKey, a
\* step that changes neither the mesh nor the lighting mode (a source edit,
\* a rotation of the environment, a Convert, a frame, and the renders and
\* commits they cause) leaves it Faulted with the fault fallback shown.
C28_FaultedStaysFaulted ==
    [][(/\ hasError
        /\ prevResetKey = ResetKey(meshType, lightingMode)
        /\ meshType' = meshType
        /\ lightingMode' = lightingMode)
          => (hasError' /\ shown' = BoundaryFallback(FallbackProp))]_vars

\* Faulted in lit mode on a model that failed to load; the source was edited
\* to a valid text, Convert has run, and the slider was moved last: the
\* fallback is still shown.
C28_Witness ==
    /\ pc = "idle"
    /\ hasError
    /\ lastEvent = [kind |-> "rotate", faulted |-> TRUE]
    /\ hdriRotation = 1
    /\ output = "converted"
    /\ glsl = "ok2"
    /\ clock > 0
    /\ shown = BoundaryFallback(FallbackProp)

-----------------------------------------------------------------------------
(* Faults raised by the change that resets *)

\* The selected combination fails every time it is tried: a custom model
\* whose load was rejected, or, in shader mode, a text the backend rejects
\* bound to a primitive or to a loaded model.
FailsDeterministically ==
    \/ isCustom(meshType) /\ cache[UrlOf(meshType)].st = "error"
    \/ /\ lightingMode = "shader"
       /\ Broken(glsl)
       /\ isCustom(meshType) => cache[UrlOf(meshType)].st = "loaded"

\* C29 (as claimed): once a mesh or lighting-mode change has been committed
\* and the combination it selected fails deterministically, the boundary has
\* settled in Faulted with the fault fallback shown, whether or not it was
\* Faulted before the change; it never rests Clean on a failing combination.
C29_FailingChangeSettlesFaulted ==
    (/\ pc = "idle"
     /\ lastEvent.kind \in {"mesh", "lighting"}
     /\ FailsDeterministically) => Faulted

-----------------------------------------------------------------------------
(* One shape in both lighting modes *)

\* Kind strings given to the two primitive components: those of the picker,
\* and one that no picker offers.
KindStrings == PickerKinds \cup {"teapot"}

HandledKinds == {"box", "sphere", "torus", "knot", "plane"}

Plane2x2 == [shape |-> "plane", args |-> <<20, 20>>]

\* C30: for every kind string the lit component resolves the same geometry
\* with the same parameters as the shader component, and a string that is no
\* handled kind resolves to the 2x2 plane in both; and whenever a primitive is
\* selected and the commit has settled, in either mode and also right after
\* a lighting switch, the shape shown is that geometry and the boundary is
\* Clean.
C30_SameShapeInBothModes ==
    /\ \A k \in KindStrings :
          /\ PrimitiveMeshLit(<<k>>).geom
                = PrimitiveMeshShader(safeFragmentShader(glsl), vertexShader, <<k>>).geom
          /\ PrimitiveMeshLit(<<k>>).result = "ok"
          /\ PrimitiveMeshShader(safeFragmentShader(glsl), vertexShader, <<k>>).result = "ok"
          /\ k \notin HandledKinds
                => /\ ~isCustom(<<k>>)
                   /\ PreviewMesh(glsl, vertexShader, <<k>>, "lit", cache).geom = Plane2x2
                   /\ PreviewMesh(glsl, vertexShader, <<k>>, "shader", cache).geom = Plane2x2
    /\ (pc = "idle" /\ ~isCustom(meshType))
          => /\ ~hasError
             /\ shown.comp = IF lightingMode = "lit" THEN "PrimitiveMeshLit"
                             ELSE "PrimitiveMeshShader"
             /\ shown.geom = PrimitiveGeometry(meshType)
             /\ shown.geom = PrimitiveGeometryLit(meshType)
             /\ meshType[1] \notin HandledKinds => shown.geom = Plane2x2

\* A sphere switched to lit mode is shown with the sphere of the lit
\* component.
C30_Witness ==
    /\ pc = "idle"
    /\ lastEvent.kind = "lighting"
    /\ lightingMode = "lit"
    /\ meshType = <<"sphere">>
    /\ shown.comp = "PrimitiveMeshLit"
    /\ shown.geom = [shape |-> "sphere", args |-> <<10, 64, 64>>]
    /\ ~hasError

====
